---- MODULE Spec2Model ----
(***************************************************************************)
(* Globally balanced multi-task splits (gbmtsplits/split.py).              *)
(*                                                                         *)
(* The module models GloballyBalancedSplit: its constructor, __call__ and   *)
(* the helpers __call__ runs (_set_original_tasks, _set_tasks_for_balancing,*)
(* _compute_tasks_per_cluster, _merge_clusters_with_balancing_mapping,      *)
(* _compute_task_balace, _compute_min_interset_Tanimoto_distances).         *)
(*                                                                         *)
(* Numbers.  A cell of the data frame is an integer-valued float (modelled  *)
(* by the integer), a non-integral float (Frac stands for any of them) or   *)
(* missing (NaN).  Fractions of the optimisation are kept exact by scaling  *)
(* with the common denominator, which is stated where it is used.           *)
(***************************************************************************)
EXTENDS Integers, Sequences, FiniteSets, TLC

(***************************************************************************)
(* Bounds of the model.                                                    *)
(***************************************************************************)
MaxRows == 2
MaxSplits == 2
\* Largest count in a tasks-vs-clusters table passed to the merge directly.
MaxCount == 2

NaN == -1
Frac == -2

\* Target size lists the constructor is given (integer weights; the code
\* normalises them, so <<4, 1>> is sizes = [0.8, 0.2]).
SizesChoices == { <<1>>, <<4, 1>>, <<2, 1, 1>> }
\* Numbers of clusters a clustering returns.
NClustersChoices == {1, 2, 3}
\* The seed a re-seedable clustering strategy is constructed with.
SeedChoices == {2022}

Rows(n) == 0 .. (n - 1)

(***************************************************************************)
(* Sequence helpers.                                                       *)
(***************************************************************************)
Range(s) == { s[i] : i \in DOMAIN s }

RECURSIVE SumSeq(_)
SumSeq(s) == IF s = <<>> THEN 0 ELSE s[1] + SumSeq(Tail(s))

RECURSIVE ProdSeq(_)
ProdSeq(s) == IF s = <<>> THEN 1 ELSE s[1] * ProdSeq(Tail(s))

RECURSIVE FilterSeq(_, _)
FilterSeq(s, keep) ==
    IF s = <<>> THEN <<>>
    ELSE IF s[1] \in keep THEN <<s[1]>> \o FilterSeq(Tail(s), keep)
    ELSE FilterSeq(Tail(s), keep)

Abs(a) == IF a < 0 THEN -a ELSE a

\* str.startswith
StartsWith(name, prefix) ==
    /\ Len(name) >= Len(prefix)
    /\ SubSeq(name, 1, Len(prefix)) = prefix

(***************************************************************************)
(* Data frames: an ordered list of column names and the values per column. *)
(***************************************************************************)
Frame(cols, val) == [cols |-> cols, val |-> val]

NRowsOf(frame) == Cardinality(DOMAIN frame.val[frame.cols[1]])

HasCol(frame, c) == c \in Range(frame.cols)

\* frame[c] = values : a new column is appended, an existing one replaced.
SetCol(frame, c, values) ==
    IF HasCol(frame, c)
    THEN Frame(frame.cols, [frame.val EXCEPT ![c] = values])
    ELSE Frame(Append(frame.cols, c), (c :> values) @@ frame.val)

\* frame.loc[idx, c] = v : the column is created, missing everywhere, when new.
SetLoc(frame, idx, c, v) ==
    LET old == IF HasCol(frame, c) THEN frame.val[c]
               ELSE [r \in Rows(NRowsOf(frame)) |-> NaN]
    IN SetCol(frame, c, [r \in Rows(NRowsOf(frame)) |-> IF r \in idx THEN v ELSE old[r]])

\* frame.drop(cols2drop, axis=1)
DropCols(frame, cols2drop) ==
    LET keep == Range(frame.cols) \ Range(cols2drop)
    IN Frame(FilterSeq(frame.cols, keep), [c \in keep |-> frame.val[c]])

(***************************************************************************)
(* _set_original_tasks (split.py 217-240).  An optional argument is a      *)
(* record [given, list]; given = FALSE is Python's None.                    *)
(***************************************************************************)
NoArg == [given |-> FALSE, list |-> <<>>]
Arg(list) == [given |-> TRUE, list |-> list]

SetOriginalTasks(frame, smiles_column, tasksArg, ignoreArg) ==
    IF ~tasksArg.given
    THEN LET all == Range(frame.cols)
             noSmiles == all \ {smiles_column}
             noIgnored == IF ignoreArg.given
                          THEN noSmiles \ Range(ignoreArg.list)
                          ELSE noSmiles
             noSplit == { c \in noIgnored : ~StartsWith(c, "Split") }
             noDist == { c \in noSplit : ~StartsWith(c, "MinIntersetDistance") }
         IN FilterSeq(frame.cols, noDist)
    ELSE tasksArg.list

(***************************************************************************)
(* _set_tasks_for_balancing (split.py 242-258).                            *)
(***************************************************************************)
IsIntegral(v) == v # Frac

\* frame[c].dropna(), in row order
RECURSIVE DropNaFrom(_, _, _)
DropNaFrom(values, r, n) ==
    IF r >= n THEN <<>>
    ELSE IF values[r] = NaN THEN DropNaFrom(values, r + 1, n)
    ELSE <<values[r]>> \o DropNaFrom(values, r + 1, n)

DropNa(frame, c) == DropNaFrom(frame.val[c], 0, NRowsOf(frame))

\* Series.unique(): the distinct values in order of first appearance
RECURSIVE Unique(_)
Unique(s) ==
    IF s = <<>> THEN <<>>
    ELSE LET front == Unique(SubSeq(s, 1, Len(s) - 1))
             last == s[Len(s)]
         IN IF last \in Range(front) THEN front ELSE Append(front, last)

\* task + '_' + str(cls)
DerivedName(task, cls) == task \o "_" \o ToString(cls)

\* an indicator that is 0, not missing, off the class
ClassIndicatorZero(frame, task, cls) ==
    [r \in Rows(NRowsOf(frame)) |-> IF frame.val[task][r] = cls THEN 1 ELSE 0]

\* (self.df[task] == cls).map({True: 1, False: np.nan})
ClassIndicator(frame, task, cls) ==
    [r \in Rows(NRowsOf(frame)) |-> IF frame.val[task][r] = cls THEN 1 ELSE NaN]

\* the inner loop over the observed classes of one classification task
RECURSIVE ExpandClasses(_, _, _)
ExpandClasses(st, task, classes) ==
    IF classes = <<>> THEN st
    ELSE LET cls == classes[1]
             next == [df |-> SetCol(st.df, DerivedName(task, cls),
                                    ClassIndicator(st.df, task, cls)),
                      tasks_for_balancing |->
                          Append(st.tasks_for_balancing, DerivedName(task, cls))]
         IN ExpandClasses(next, task, Tail(classes))

RECURSIVE BalancingLoop(_, _)
BalancingLoop(st, todo) ==
    IF todo = <<>> THEN st
    ELSE LET task == todo[1]
             observed == DropNa(st.df, task)
             next == IF \A i \in DOMAIN observed : IsIntegral(observed[i])
                     THEN ExpandClasses(st, task, Unique(observed))
                     ELSE [st EXCEPT !.tasks_for_balancing = Append(@, task)]
         IN BalancingLoop(next, Tail(todo))

SetTasksForBalancing(frame, originals) ==
    BalancingLoop([df |-> frame, tasks_for_balancing |-> <<>>], originals)

(***************************************************************************)
(* _compute_tasks_per_cluster (split.py 180-211).  The clusters are a      *)
(* dictionary in insertion order: a sequence of [id, idx] items.  The      *)
(* table is a sequence of M rows of N numbers; row 1 is the code's row 0   *)
(* and column p + 1 the code's column p.                                   *)
(***************************************************************************)
ClusterIds(cl) == { cl[p].id : p \in DOMAIN cl }

\* Python and numpy indexing of a sequence of length n: i in -n..n-1 is
\* valid, a negative i counting from the end
ValidIndex(i, n) == -n <= i /\ i < n

Position(i, n) == IF i < 0 THEN i + n ELSE i

CountNotNa(frame, task, idx) ==
    Cardinality({ r \in idx : frame.val[task][r] # NaN })

\* the count task_vs_clusters[i+1, j] ends with; cells never written stay 0
TaskCell(frame, task, cl, j) ==
    LET writers == { p \in DOMAIN cl : Position(cl[p].id, Len(cl)) = j }
    IN IF writers = {} THEN 0
       ELSE LET p == CHOOSE q \in writers : \A o \in writers : o <= q
            IN CountNotNa(frame, task, cl[p].idx)

\* task_vs_clusters[i+1, j] = ... with a key j that is no column index is an
\* IndexError
TabulateFails(taskList, cl) ==
    /\ taskList # <<>>
    /\ \E j \in ClusterIds(cl) : ~ValidIndex(j, Len(cl))

ComputeTasksPerCluster(frame, taskList, cl) ==
    LET N == Len(cl)
        sizesRow == [p \in 1..N |-> Cardinality(cl[p].idx)]
        taskRow(i) == [p \in 1..N |-> TaskCell(frame, taskList[i], cl, p - 1)]
    IN <<sizesRow>> \o [i \in 1..Len(taskList) |-> taskRow(i)]

(***************************************************************************)
(* _merge_clusters_with_balancing_mapping (split.py 260-396).              *)
(*                                                                         *)
(* Indices are the code's: clusters c in 0..N-1, subsets m in 0..S-1, task  *)
(* rows t in 0..M-1; table[t + 1][c + 1] is tasks_vs_clusters_array[t, c].  *)
(* The normalised entry A[t, c] is table[t+1][c+1] / RowSum(table, t) and   *)
(* fractional_sizes[m] is sizes[m+1] / SumSeq(sizes).                       *)
(***************************************************************************)
NoValue == -1

RowSum(table, t) == SumSeq(table[t + 1])

\* A check that lets one subset more than there are clusters through.
TooManySubsetsOffByOne(sizes, table) == Len(sizes) > Len(table[1]) + 1

\* S > N : the requested number of subsets exceeds the number of clusters
TooManySubsets(sizes, table) == Len(sizes) > Len(table[1])

\* the index of the binary variable of (cluster c, subset m): x[c + m*N]
XIndex(c, m, N) == c + m * N

\* the index of the slack variable the objective weights for (subset m, task t)
ObjectiveSlack(m, t, M) == m * M + t

\* the index of the slack variable the two constraints of (m, t) are put on
ConstraintSlack(m, t, M) == t

\* obj_weights before normalisation, and their sum
ObjWeight(t, M, equal_weight) ==
    IF M > 1 /\ ~equal_weight THEN (IF t = 0 THEN M - 1 ELSE 1) ELSE 1

\* sk_harmonic[m] = HarmonicNum(sizes, m) / HarmonicDen(sizes)
HarmonicNum(sizes, m) == ProdSeq(sizes) \div sizes[m + 1]

HarmonicDen(sizes) == SumSeq([k \in 1..Len(sizes) |-> ProdSeq(sizes) \div sizes[k]])

\* the data of task row t that the assignment xs puts into subset m (unnormalised)
Achieved(table, xs, t, m) ==
    LET N == Len(table[1])
    IN SumSeq([k \in 1..N |-> table[t + 1][k] * xs[XIndex(k - 1, m, N) + 1]])

\* Denominator shared by every |achieved fraction - target fraction|
DevDen(table, sizes) ==
    SumSeq(sizes) * ProdSeq([k \in 1..Len(table) |-> RowSum(table, k - 1)])

\* |A[t,:].x[:,m] - fractional_sizes[m]| * DevDen
Deviation(table, sizes, xs, t, m) ==
    Abs(SumSeq(sizes) * Achieved(table, xs, t, m) - sizes[m + 1] * RowSum(table, t))
        * (DevDen(table, sizes) \div (SumSeq(sizes) * RowSum(table, t)))

\* The least value (times DevDen) slack variable k can take under the
\* constraints of the model, the binary variables being xs: its lower bound 0
\* and the two constraints of every (m, t) that are put on it.
LeastSlack(table, sizes, xs, k) ==
    LET M == Len(table)
        S == Len(sizes)
        on == { mt \in (0..(S - 1)) \X (0..(M - 1)) : ConstraintSlack(mt[1], mt[2], M) = k }
        devs == { Deviation(table, sizes, xs, mt[2], mt[1]) : mt \in on } \cup {0}
    IN CHOOSE d \in devs : \A e \in devs : e <= d

\* The objective (times DevDen * HarmonicDen * sum of obj_weights) of the
\* assignment xs with every slack variable at its least value.
Objective(table, sizes, equal_weight, xs) ==
    LET M == Len(table)
        S == Len(sizes)
        term(m, t) == HarmonicNum(sizes, m) * ObjWeight(t, M, equal_weight)
                        * LeastSlack(table, sizes, xs, ObjectiveSlack(m, t, M))
    IN SumSeq([i \in 1..(S * M) |-> term((i - 1) \div M, (i - 1) % M)])

\* Constraints forcing each cluster to be in one and only one subset
OneSubsetPerCluster(xs, N, S) ==
    \A c \in 0..(N - 1) :
        SumSeq([k \in 1..S |-> xs[XIndex(c, k - 1, N) + 1]]) = 1

\* The values of the binary variables of a feasible solution (an incumbent)
Incumbents(N, S) ==
    { xs \in [1..(N * S) -> {0, 1}] : OneSubsetPerCluster(xs, N, S) }

\* Values of a relaxed solution: kind[c] = m puts cluster c into subset m,
\* kind[c] = S spreads it over the first two subsets in non-integral parts.
RelaxedValues(kind, N, S) ==
    [i \in 1..(N * S) |->
        LET c == (i - 1) % N
            m == (i - 1) \div N
        IN IF kind[c] = m THEN 1
           ELSE IF kind[c] = S /\ m <= 1 THEN Frac
           ELSE 0]

\* The values read back when the solver stopped without an incumbent: none
\* (value() is None), the zeros the solution file is read over, or a solution
\* of the relaxation with non-integral indicators.
NoIncumbentValues(N, S) ==
    { [i \in 1..(N * S) |-> NoValue], [i \in 1..(N * S) |-> 0] }
        \cup { RelaxedValues(kind, N, S) :
                 kind \in { k \in [0..(N - 1) -> 0..S] :
                              S >= 2 /\ \E c \in 0..(N - 1) : k[c] = S } }

\* sorted(zip(keys, values)): ascending pairs; Python's sort of tuples
RECURSIVE SortPairs(_)
SortPairs(ps) ==
    IF ps = {} THEN <<>>
    ELSE LET least == CHOOSE p \in ps : \A q \in ps :
                          p[1] < q[1] \/ (p[1] = q[1] /\ p[2] <= q[2])
         IN <<least>> \o SortPairs(ps \ {least})

\* A decoding that takes the value list to be laid out cluster by cluster.
ExtractMappingByCluster(xs, N, S) ==
    LET ones == { i \in 0..(N * S - 1) : xs[i + 1] = 1 }
        pairs == { <<i \div S, 1 + (i % S), i>> : i \in ones }
        sorted == SortPairs(pairs)
    IN [k \in 1..Len(sorted) |-> sorted[k][2]]

\* Extract the solution (split.py 391-394).  Position i of the value list
\* belongs to cluster i mod N and to subset 1 + i div N.
ExtractMapping(xs, N, S) ==
    LET ones == { i \in 0..(N * S - 1) : xs[i + 1] = 1 }
        pairs == { <<i % N, 1 + (i \div N), i>> : i \in ones }
        sorted == SortPairs(pairs)
    IN [k \in 1..Len(sorted) |-> sorted[k][2]]

(***************************************************************************)
(* _compute_task_balace (split.py 447-487) only prints, but                *)
(* max(self.tasks_for_balancing, key=len) raises a ValueError on an empty   *)
(* list of balancing tasks.                                                 *)
(***************************************************************************)
BalanceFails(balancing) == balancing = <<>>

(***************************************************************************)
(* _compute_min_interset_Tanimoto_distances (split.py 398-445).  sim[i][j]  *)
(* is BulkTanimotoSimilarity of rows i and j times SimScale, and a stored   *)
(* distance is the distance times SimScale.                                 *)
(***************************************************************************)
SimLevels == {0, 1, 2}

SimScale == CHOOSE k \in SimLevels : \A l \in SimLevels : l <= k

\* self.df[split_col].unique(), without the missing value (which selects no row)
SubsetsPresent(frame, split_col) ==
    { frame.val[split_col][r] : r \in Rows(NRowsOf(frame)) } \ {NaN}

\* ref_idx and the rows of other_fps for subset j
RefIdx(frame, split_col, j) ==
    { r \in Rows(NRowsOf(frame)) : frame.val[split_col][r] = j }

\* a pool that is every row, those of subset j too
OtherIdxEveryRow(frame, split_col, j) == Rows(NRowsOf(frame))

OtherIdx(frame, split_col, j) == Rows(NRowsOf(frame)) \ RefIdx(frame, split_col, j)

\* max(sims) of an empty list raises a ValueError
DistanceFails(frame, split_col) ==
    \E j \in SubsetsPresent(frame, split_col) :
        RefIdx(frame, split_col, j) # {} /\ OtherIdx(frame, split_col, j) = {}

MaxSim(sim, i, others) ==
    CHOOSE v \in { sim[i][o] : o \in others } : \A o \in others : sim[i][o] <= v

\* min_distances: np.zeros, then 1 - max(sims) for the rows of every subset
MinDistances(frame, split_col, sim) ==
    [r \in Rows(NRowsOf(frame)) |->
        IF frame.val[split_col][r] = NaN THEN 0
        ELSE SimScale - MaxSim(sim, r, OtherIdx(frame, split_col, frame.val[split_col][r]))]

(***************************************************************************)
(* __call__ (split.py 70-177): names and the steps of the loop body.       *)
(***************************************************************************)
SplitName(n_splits, i) == IF n_splits = 1 THEN "Split" ELSE "Split_" \o ToString(i)

DistName(n_splits, i) ==
    IF n_splits = 1 THEN "minInterSetTd" ELSE "minInterSetTd_" \o ToString(i)

\* the kinds of clustering strategy n_splits > 1 accepts (isinstance checks)
Reseedable == {"MaxMinClustering", "RandomClustering"}

\* the strategies that are constructed with a seed (tests.py)
HasSeed(kind) == kind \in {"MaxMinClustering", "RandomClustering"}

\* A check that forgets the strategy.
MultiSplitRejectedClustersOnly(me) == me.n_splits > 1 /\ me.clusters.given

MultiSplitRejected(me) ==
    /\ me.n_splits > 1
    /\ \/ me.clusters.given
       \/ me.clustering_method \notin Reseedable

\* for i, idx in clusters.items(): self.df.loc[idx, split_name] = mapping[i] - 1
\* mapping[i] raises an IndexError when i is no index of the list; the items
\* before it have been written by then.
WriteFails(cl, map) == \E p \in DOMAIN cl : ~ValidIndex(cl[p].id, Len(map))

\* The subset id written as it is, 1-based.
AssignedValueOneBased(map, i) == map[Position(i, Len(map)) + 1]

AssignedValue(map, i) == map[Position(i, Len(map)) + 1] - 1

\* Only the first cluster is written.
WriteLoopFirstOnly(frame, cl, map, split_name) ==
    IF cl = <<>> \/ ~ValidIndex(cl[1].id, Len(map)) THEN frame
    ELSE SetLoc(frame, cl[1].idx, split_name, map[Position(cl[1].id, Len(map)) + 1] - 1)

RECURSIVE WriteLoop(_, _, _, _)
WriteLoop(frame, cl, map, split_name) ==
    IF cl = <<>> \/ ~ValidIndex(cl[1].id, Len(map)) THEN frame
    ELSE WriteLoop(SetLoc(frame, cl[1].idx, split_name, AssignedValue(map, cl[1].id)),
                   Tail(cl), map, split_name)

\* Every balancing column is dropped, original task or not.
ColsToDropAll(balancing, originals) == balancing

\* cols2drop = [col for col in tasks_for_balancing if col not in original_tasks]
ColsToDrop(balancing, originals) ==
    FilterSeq(balancing, Range(balancing) \ Range(originals))

VARIABLES
    pc,                    \* position in the constructor / __call__
    ctor,                  \* the arguments the constructor was called with
    self,                  \* the splitter's attributes set by __init__
    seed,                  \* clustering_method.seed
    data,                  \* the data frame passed to __call__
    tasks,                 \* __call__'s tasks argument
    ignore_columns,        \* __call__'s ignore_columns argument
    df,                    \* self.df
    original_tasks,        \* self.original_tasks
    tasks_for_balancing,   \* self.tasks_for_balancing
    split,                 \* the loop variable of __call__
    clusters,              \* the clusters of the current iteration
    tasks_per_cluster,     \* the tasks-vs-clusters table of the iteration
    solution,              \* value(x[i]) for the N * S binary indicators
    mapping,               \* what _merge_clusters_with_balancing_mapping returned
    sims,                  \* the pairwise similarities of the rows' fingerprints
    error,                 \* the exception that ended the call, "" if none
    result,                \* the data frame __call__ returned
    log,                   \* the work done so far, in order
    caller                 \* who runs the merge: "__call__" or a direct call

vars == << pc, ctor, self, seed, data, tasks, ignore_columns, df, original_tasks,
           tasks_for_balancing, split, clusters, tasks_per_cluster, solution,
           mapping, sims, error, result, log, caller >>

(***************************************************************************)
(* Inputs.                                                                 *)
(***************************************************************************)
NoFrame == [cols |-> <<>>, val |-> [c \in {} |-> <<>>]]
NoSelf == [constructed |-> FALSE]
NoClusters == [given |-> FALSE, items |-> <<>>]

\* The dictionary {base + k: rows assigned to k} for k in 0..N-1
ClusterDict(n, N, assign, base) ==
    [given |-> TRUE,
     items |-> [p \in 1..N |-> [id |-> base + p - 1,
                                idx |-> { r \in Rows(n) : assign[r] = p - 1 }]]]

\* What a clustering strategy that makes N clusters may return for n rows: a
\* partition of the rows into clusters with ids 0..N-1, empty clusters included.
Clusterings(n, N) ==
    { ClusterDict(n, N, assign, 0).items : assign \in [Rows(n) -> 0..(N - 1)] }

\* Precomputed clusters a caller may pass: partitions into two clusters with
\* ids from 0, one inserted in the order 1, 0, a partition with ids from 1,
\* and the empty dictionary.
PrecomputedChoices(n) ==
    { ClusterDict(n, 2, assign, 0) : assign \in [Rows(n) -> 0..1] }
        \cup { [given |-> TRUE,
                 items |-> << [id |-> 1, idx |-> {0}],
                              [id |-> 0, idx |-> Rows(n) \ {0}] >>] }
        \cup { ClusterDict(n, 2, [r \in Rows(n) |-> r % 2], 1) }
        \cup { [given |-> TRUE, items |-> <<>>] }

Column(n, v) == [r \in Rows(n) |-> v]

\* Similarities of the molecules of the data frame, a function of the SMILES
\* column: unrelated molecules, and molecules the closer the nearer their rows.
Unrelated(n) == [i \in Rows(n) |-> [j \in Rows(n) |-> IF i = j THEN SimScale ELSE 0]]

Graded(n) ==
    [i \in Rows(n) |-> [j \in Rows(n) |->
        IF Abs(i - j) >= SimScale THEN 0 ELSE SimScale - Abs(i - j)]]

BaseVal(n, a) == ("SMILES" :> [r \in Rows(n) |-> r]) @@ ("A" :> a)

\* The data frames and task arguments __call__ is given, for n rows.
DataCases(n) ==
    {   \* a classification task with two classes
        [data |-> Frame(<<"SMILES", "A">>, BaseVal(n, [r \in Rows(n) |-> r % 2])),
         tasks |-> NoArg, ignore_columns |-> NoArg, sims |-> Graded(n)],
        \* a regression task, named explicitly
        [data |-> Frame(<<"SMILES", "A">>, BaseVal(n, Column(n, Frac))),
         tasks |-> Arg(<<"A">>), ignore_columns |-> NoArg, sims |-> Unrelated(n)],
        \* a task with no value at all
        [data |-> Frame(<<"SMILES", "A">>, BaseVal(n, Column(n, NaN))),
         tasks |-> NoArg, ignore_columns |-> NoArg, sims |-> Graded(n)],
        \* a data frame that was split before
        [data |-> Frame(<<"SMILES", "A", "Split", "Split_0">>,
                        BaseVal(n, [r \in Rows(n) |-> IF r = 0 THEN 1 ELSE NaN])
                            @@ ("Split" :> Column(n, 0)) @@ ("Split_0" :> Column(n, 0))),
         tasks |-> NoArg, ignore_columns |-> NoArg, sims |-> Unrelated(n)],
        \* an ignored column named like a class column of task A
        [data |-> Frame(<<"SMILES", "A", "A_1">>,
                        BaseVal(n, [r \in Rows(n) |-> r % 2]) @@ ("A_1" :> Column(n, 7))),
         tasks |-> NoArg, ignore_columns |-> Arg(<<"A_1">>), sims |-> Graded(n)]
    }

MethodArgs == {"omitted", "None", "RandomClustering", "MurckoScaffoldClustering"}

\* Constructor calls: one split with a strategy, precomputed clusters, and
\* several splits.  n_clusters and seed describe the strategy passed (or the
\* default one).
CtorCases(n) ==
    [ clusters : {NoClusters},
      clustering_method : MethodArgs,
      n_clusters : NClustersChoices,
      sizes : SizesChoices,
      n_splits : {1},
      min_distance : BOOLEAN,
      seed : SeedChoices ]
    \cup
    [ clusters : PrecomputedChoices(n),
      clustering_method : {"omitted", "None"},
      n_clusters : {2},
      sizes : SizesChoices,
      n_splits : {1},
      min_distance : {TRUE},
      seed : SeedChoices ]
    \cup
    [ clusters : {NoClusters, ClusterDict(n, 2, [r \in Rows(n) |-> r % 2], 0)},
      clustering_method : MethodArgs,
      n_clusters : {2},
      sizes : { <<4, 1>> },
      n_splits : 2..MaxSplits,
      min_distance : BOOLEAN,
      seed : SeedChoices ]

(***************************************************************************)
(* The state before the constructor runs.                                  *)
(***************************************************************************)
Init ==
    \E n \in {MaxRows} : \E dc \in DataCases(n) : \E cc \in CtorCases(n) :
        /\ pc = "new"
        /\ ctor = cc
        /\ self = NoSelf
        /\ seed = cc.seed
        /\ data = dc.data
        /\ tasks = dc.tasks
        /\ ignore_columns = dc.ignore_columns
        /\ df = NoFrame
        /\ original_tasks = <<>>
        /\ tasks_for_balancing = <<>>
        /\ split = 0
        /\ clusters = <<>>
        /\ tasks_per_cluster = <<>>
        /\ solution = <<>>
        /\ mapping = <<>>
        /\ sims = dc.sims
        /\ error = ""
        /\ result = NoFrame
        /\ log = <<>>
        /\ caller = "__call__"

(***************************************************************************)
(* __init__ (split.py 42-68).  clustering_method defaults to a              *)
(* MaxMinClustering instance, clusters to None.                             *)
(***************************************************************************)
MethodValue(arg) == IF arg = "omitted" THEN "MaxMinClustering" ELSE arg

\* A check that only rejects the case of neither.
InitRejectsNeither(clustersValue, methodValue) ==
    ~clustersValue.given /\ methodValue = "None"

InitRejects(clustersValue, methodValue) ==
    \/ ~clustersValue.given /\ methodValue = "None"
    \/ clustersValue.given /\ methodValue # "None"

Construct ==
    /\ pc = "new"
    /\ IF InitRejects(ctor.clusters, MethodValue(ctor.clustering_method))
       THEN /\ error' = "ValueError"
            /\ pc' = "failed"
            /\ self' = self
       ELSE /\ self' = [constructed |-> TRUE,
                        sizes |-> ctor.sizes,
                        clusters |-> ctor.clusters,
                        clustering_method |-> MethodValue(ctor.clustering_method),
                        n_splits |-> ctor.n_splits,
                        equal_weight_perc_compounds_as_tasks |-> TRUE,
                        min_distance |-> ctor.min_distance]
            /\ pc' = "constructed"
            /\ error' = error
    /\ UNCHANGED << ctor, seed, data, tasks, ignore_columns, df, original_tasks,
                    tasks_for_balancing, split, clusters, tasks_per_cluster,
                    solution, mapping, sims, result, log, caller >>

(***************************************************************************)
(* __call__, lines 98-105: multiple splits need a re-seedable strategy.     *)
(***************************************************************************)
CallCheck ==
    /\ pc = "constructed"
    /\ IF MultiSplitRejected(self)
       THEN /\ error' = "ValueError"
            /\ pc' = "failed"
       ELSE /\ error' = error
            /\ pc' = "prepare"
    /\ UNCHANGED << ctor, self, seed, data, tasks, ignore_columns, df, original_tasks,
                    tasks_for_balancing, split, clusters, tasks_per_cluster,
                    solution, mapping, sims, result, log, caller >>

\* where the loop over range(n_splits) goes with its variable at i
LoopPc(me, i) == IF i < me.n_splits THEN "cluster" ELSE "drop"

(***************************************************************************)
(* __call__, lines 107-115: copy the data, set the tasks.                   *)
(***************************************************************************)
CallPrepare ==
    /\ pc = "prepare"
    /\ LET originals == SetOriginalTasks(data, "SMILES", tasks, ignore_columns)
           st == SetTasksForBalancing(data, originals)
       IN /\ original_tasks' = originals
          /\ df' = st.df
          /\ tasks_for_balancing' = st.tasks_for_balancing
    /\ split' = 0
    /\ pc' = LoopPc(self, 0)
    /\ log' = log \o << [op |-> "copy", split |-> 0, seed |-> seed],
                        [op |-> "set_tasks", split |-> 0, seed |-> seed] >>
    /\ UNCHANGED << ctor, self, seed, data, tasks, ignore_columns, clusters,
                    tasks_per_cluster, solution, mapping, sims, error, result, caller >>

LogEntry(op) == [op |-> op, split |-> split, seed |-> seed]

(***************************************************************************)
(* __call__, lines 134-139: the clusters of the iteration.  A strategy is  *)
(* called with the seed it holds and returns some partition of the rows.    *)
(***************************************************************************)
Cluster ==
    /\ pc = "cluster"
    /\ IF self.clusters.given /\ self.clusters.items # <<>>
       THEN /\ clusters' = self.clusters.items
            /\ error' = error
            /\ pc' = "tabulate"
            /\ log' = log
       ELSE IF self.clustering_method = "None"
       THEN \* an empty dictionary is falsy and there is no strategy to call
            /\ clusters' = clusters
            /\ error' = "TypeError"
            /\ pc' = "failed"
            /\ log' = log
       ELSE /\ clusters' \in Clusterings(NRowsOf(df), ctor.n_clusters)
            /\ error' = error
            /\ pc' = "tabulate"
            /\ log' = Append(log, LogEntry("cluster"))
    /\ UNCHANGED << ctor, self, seed, data, tasks, ignore_columns, df, original_tasks,
                    tasks_for_balancing, split, tasks_per_cluster, solution,
                    mapping, sims, result, caller >>

(***************************************************************************)
(* __call__, line 141: _compute_tasks_per_cluster.                          *)
(***************************************************************************)
Tabulate ==
    /\ pc = "tabulate"
    /\ IF TabulateFails(tasks_for_balancing, clusters)
       THEN /\ error' = "IndexError"
            /\ pc' = "failed"
            /\ tasks_per_cluster' = tasks_per_cluster
       ELSE /\ tasks_per_cluster' = ComputeTasksPerCluster(df, tasks_for_balancing, clusters)
            /\ error' = error
            /\ pc' = IF caller = "__call__" THEN "merge" ELSE "tabulated"
    /\ log' = Append(log, LogEntry("tabulate"))
    /\ UNCHANGED << ctor, self, seed, data, tasks, ignore_columns, df, original_tasks,
                    tasks_for_balancing, split, clusters, solution, mapping, sims,
                    result, caller >>

(***************************************************************************)
(* _merge_clusters_with_balancing_mapping, lines 311-324: the fractions,    *)
(* the normalised table, then the check of S against N.                     *)
(***************************************************************************)
MergeCheck ==
    /\ pc = "merge"
    /\ IF TooManySubsets(self.sizes, tasks_per_cluster)
       THEN /\ error' = "ValueError"
            /\ pc' = "failed"
       ELSE /\ error' = error
            /\ pc' = "solve"
    /\ log' = Append(log, LogEntry("normalise"))
    /\ UNCHANGED << ctor, self, seed, data, tasks, ignore_columns, df, original_tasks,
                    tasks_for_balancing, split, clusters, tasks_per_cluster,
                    solution, mapping, sims, result, caller >>

(***************************************************************************)
(* _merge_clusters_with_balancing_mapping, lines 336-396: build the model,  *)
(* solve it, extract the mapping and return it.  The solver stops at the    *)
(* relative gap or the time limit with the incumbent it has, which may be    *)
(* any feasible solution, or with none.                                     *)
(***************************************************************************)
SolverValues(N, S) == Incumbents(N, S) \cup NoIncumbentValues(N, S)

Solve ==
    /\ pc = "solve"
    /\ LET N == Len(tasks_per_cluster[1])
           S == Len(self.sizes)
       IN /\ solution' \in SolverValues(N, S)
          /\ mapping' = ExtractMapping(solution', N, S)
    /\ pc' = IF caller = "__call__" THEN "write" ELSE "returned"
    /\ log' = Append(log, LogEntry("solve"))
    /\ UNCHANGED << ctor, self, seed, data, tasks, ignore_columns, df, original_tasks,
                    tasks_for_balancing, split, clusters, tasks_per_cluster, sims,
                    error, result, caller >>

(***************************************************************************)
(* __call__, lines 151-155: write the subsets to the split column, then     *)
(* print the balance.                                                       *)
(***************************************************************************)
Write ==
    /\ pc = "write"
    /\ LET split_name == SplitName(self.n_splits, split)
       IN /\ df' = WriteLoop(df, clusters, mapping, split_name)
          /\ IF WriteFails(clusters, mapping)
             THEN error' = "IndexError" /\ pc' = "failed"
             ELSE IF BalanceFails(tasks_for_balancing)
             THEN error' = "ValueError" /\ pc' = "failed"
             ELSE error' = error /\ pc' = "distance"
    /\ log' = Append(log, LogEntry("write"))
    /\ UNCHANGED << ctor, self, seed, data, tasks, ignore_columns, original_tasks,
                    tasks_for_balancing, split, clusters, tasks_per_cluster,
                    solution, mapping, sims, result, caller >>

(***************************************************************************)
(* __call__, lines 157-170: the distances when asked for, then the seed of  *)
(* the strategy moves on and the loop continues.                            *)
(***************************************************************************)
\* The seed is left as it is.
UpdatedSeedKept(me, s) == s

UpdatedSeed(me, s) == IF me.n_splits > 1 THEN s + 1 ELSE s

\* The loop moves on: the locals of the finished iteration are dead.
NextIteration ==
    /\ seed' = UpdatedSeed(self, seed)
    /\ split' = split + 1
    /\ pc' = LoopPc(self, split + 1)
    /\ clusters' = <<>>
    /\ tasks_per_cluster' = <<>>
    /\ solution' = <<>>
    /\ mapping' = <<>>
    /\ error' = error

Distance ==
    /\ pc = "distance"
    /\ LET split_name == SplitName(self.n_splits, split)
           mintd_name == DistName(self.n_splits, split)
       IN IF self.min_distance
          THEN IF DistanceFails(df, split_name)
               THEN /\ error' = "ValueError"
                    /\ pc' = "failed"
                    /\ UNCHANGED << df, seed, split, clusters, tasks_per_cluster,
                                    solution, mapping >>
               ELSE /\ df' = SetCol(df, mintd_name, MinDistances(df, split_name, sims))
                    /\ NextIteration
          ELSE /\ df' = df
               /\ NextIteration
    /\ log' = Append(log, LogEntry("distance"))
    /\ UNCHANGED << ctor, self, data, tasks, ignore_columns, original_tasks,
                    tasks_for_balancing, sims, result, caller >>

(***************************************************************************)
(* __call__, lines 173-177: drop the balancing columns and return.          *)
(***************************************************************************)
Return ==
    /\ pc = "drop"
    /\ df' = DropCols(df, ColsToDrop(tasks_for_balancing, original_tasks))
    /\ result' = df'
    /\ pc' = "done"
    /\ UNCHANGED << ctor, self, seed, data, tasks, ignore_columns, original_tasks,
                    tasks_for_balancing, split, clusters, tasks_per_cluster,
                    solution, mapping, sims, error, log, caller >>

Next ==
    \/ Construct
    \/ CallCheck
    \/ CallPrepare
    \/ Cluster
    \/ Tabulate
    \/ MergeCheck
    \/ Solve
    \/ Write
    \/ Distance
    \/ Return

Spec == Init /\ [][Next]_vars

(***************************************************************************)
(* _merge_clusters_with_balancing_mapping called on its own, with any       *)
(* table a tabulation can produce: M rows (the row of cluster sizes and     *)
(* M - 1 task rows), N columns, no row summing to zero.                     *)
(***************************************************************************)
TaskRowsChoices == {0, 1}

TablesOf(M, N) ==
    { tab \in [1..M -> [1..N -> 0..MaxCount]] :
        /\ \A t \in 1..M : SumSeq(tab[t]) > 0
        /\ \A t \in 1..M : \A c \in 1..N : tab[t][c] <= tab[1][c] }

MergeInit ==
    \E N \in NClustersChoices : \E k \in TaskRowsChoices :
    \E tab \in TablesOf(k + 1, N) : \E sz \in SizesChoices : \E w \in BOOLEAN :
        /\ pc = "merge"
        /\ caller = "direct"
        /\ ctor = [sizes |-> sz, equal_weight_perc_compounds_as_tasks |-> w]
        /\ self = [constructed |-> TRUE,
                   sizes |-> sz,
                   clusters |-> NoClusters,
                   clustering_method |-> "MaxMinClustering",
                   n_splits |-> 1,
                   equal_weight_perc_compounds_as_tasks |-> w,
                   min_distance |-> FALSE]
        /\ tasks_per_cluster = tab
        /\ seed = 0
        /\ data = NoFrame
        /\ tasks = NoArg
        /\ ignore_columns = NoArg
        /\ df = NoFrame
        /\ original_tasks = <<>>
        /\ tasks_for_balancing = <<>>
        /\ split = 0
        /\ clusters = <<>>
        /\ solution = <<>>
        /\ mapping = <<>>
        /\ sims = <<>>
        /\ error = ""
        /\ result = NoFrame
        /\ log = <<>>

MergeNext == MergeCheck \/ Solve

SpecMerge == MergeInit /\ [][MergeNext]_vars

(***************************************************************************)
(* _set_tasks_for_balancing called on its own, one task of the loop of      *)
(* lines 252-258 at a step.  The frame has the structures and two task      *)
(* columns, the second one named like a class column of the first or not;   *)
(* a cell is missing, a class 0 or 1, or a non-integral number.             *)
(***************************************************************************)
CellValues == {NaN, 0, 1, Frac}

SecondTaskNames == {"B", "A_1"}

TaskFrames(n, second) ==
    { Frame(<<"SMILES", "A", second>>,
            ("SMILES" :> [r \in Rows(n) |-> r]) @@ ("A" :> a) @@ (second :> b)) :
        a \in [Rows(n) -> CellValues], b \in [Rows(n) -> CellValues] }

TaskLists(second) == { <<"A">>, <<"A", second>>, <<second, "A">> }

\* the splitter a direct call of one of its methods is made on
DefaultSelf ==
    [constructed |-> TRUE,
     sizes |-> <<4, 1>>,
     clusters |-> NoClusters,
     clustering_method |-> "MaxMinClustering",
     n_splits |-> 1,
     equal_weight_perc_compounds_as_tasks |-> TRUE,
     min_distance |-> TRUE]

BalancingInit ==
    \E second \in SecondTaskNames : \E frame \in TaskFrames(MaxRows, second) :
    \E originals \in TaskLists(second) :
        /\ pc = "balancing"
        /\ caller = "direct"
        /\ ctor = [sizes |-> <<4, 1>>]
        /\ self = DefaultSelf
        /\ data = frame
        /\ df = frame
        /\ original_tasks = originals
        /\ tasks_for_balancing = <<>>
        /\ seed = 0
        /\ tasks = Arg(originals)
        /\ ignore_columns = NoArg
        /\ split = 0
        /\ clusters = <<>>
        /\ tasks_per_cluster = <<>>
        /\ solution = <<>>
        /\ mapping = <<>>
        /\ sims = <<>>
        /\ error = ""
        /\ result = NoFrame
        /\ log = <<>>

\* one pass of the loop of line 252: the next original task
BalanceTask ==
    /\ pc = "balancing"
    /\ Len(log) < Len(original_tasks)
    /\ LET st == BalancingLoop([df |-> df, tasks_for_balancing |-> tasks_for_balancing],
                               << original_tasks[Len(log) + 1] >>)
       IN /\ df' = st.df
          /\ tasks_for_balancing' = st.tasks_for_balancing
    /\ log' = Append(log, LogEntry("balance_task"))
    /\ UNCHANGED << pc, ctor, self, seed, data, tasks, ignore_columns, original_tasks,
                    split, clusters, tasks_per_cluster, solution, mapping, sims,
                    error, result, caller >>

\* the loop is exhausted, the method returns
BalanceReturn ==
    /\ pc = "balancing"
    /\ Len(log) = Len(original_tasks)
    /\ pc' = "balanced"
    /\ UNCHANGED << ctor, self, seed, data, tasks, ignore_columns, df, original_tasks,
                    tasks_for_balancing, split, clusters, tasks_per_cluster, solution,
                    mapping, sims, error, result, log, caller >>

BalancingNext == BalanceTask \/ BalanceReturn

SpecBalancing == BalancingInit /\ [][BalancingNext]_vars

(***************************************************************************)
(* _compute_tasks_per_cluster called on its own: a frame with a class      *)
(* column and a regression column, some of them the tasks, and a            *)
(* dictionary of clusters with any lists of rows, empty ones included, and  *)
(* keys in or out of step with the order of insertion.                      *)
(***************************************************************************)
BalancingFrames(n) ==
    { Frame(<<"SMILES", "A_1", "B">>,
            ("SMILES" :> [r \in Rows(n) |-> r]) @@ ("A_1" :> a) @@ ("B" :> b)) :
        a \in [Rows(n) -> {NaN, 1}], b \in [Rows(n) -> {NaN, Frac}] }

BalancingLists == { <<>>, <<"A_1">>, <<"A_1", "B">> }

\* the keys of a dictionary of clusters, in insertion order
KeyOrders == { <<0>>, <<0, 1>>, <<1, 0>>, <<1, 2>>, <<0, -1>> }

ClusterDicts(n) ==
    { [p \in DOMAIN keys |-> [id |-> keys[p], idx |-> members[p]]] :
        keys \in KeyOrders, members \in [1..2 -> SUBSET Rows(n)] }

TabulateInit ==
    \E frame \in BalancingFrames(MaxRows) : \E balancing \in BalancingLists :
    \E cl \in ClusterDicts(MaxRows) :
        /\ pc = "tabulate"
        /\ caller = "direct"
        /\ ctor = [sizes |-> <<4, 1>>]
        /\ self = DefaultSelf
        /\ data = frame
        /\ df = frame
        /\ original_tasks = <<>>
        /\ tasks_for_balancing = balancing
        /\ clusters = cl
        /\ seed = 0
        /\ tasks = NoArg
        /\ ignore_columns = NoArg
        /\ split = 0
        /\ tasks_per_cluster = <<>>
        /\ solution = <<>>
        /\ mapping = <<>>
        /\ sims = <<>>
        /\ error = ""
        /\ result = NoFrame
        /\ log = <<>>

SpecTabulate == TabulateInit /\ [][Tabulate]_vars

(***************************************************************************)
(* _compute_min_interset_Tanimoto_distances called on its own, with its     *)
(* default column names: a frame whose rows all have a subset, and any      *)
(* symmetric similarities of the rows' fingerprints, a fingerprint being    *)
(* most similar to itself.                                                  *)
(***************************************************************************)
DistanceRows == MaxRows + 1

SplitColumns(n) == [Rows(n) -> 0..MaxSplits]

RowPairs(n) == { pr \in Rows(n) \X Rows(n) : pr[1] < pr[2] }

Similarities(n) ==
    { [i \in Rows(n) |-> [j \in Rows(n) |->
          IF i = j THEN SimScale
          ELSE IF i < j THEN u[<<i, j>>] ELSE u[<<j, i>>]]] :
        u \in [RowPairs(n) -> SimLevels] }

DistanceInit ==
    \E subsets \in SplitColumns(DistanceRows) : \E sim \in Similarities(DistanceRows) :
        /\ pc = "distances"
        /\ caller = "direct"
        /\ ctor = [sizes |-> <<4, 1>>]
        /\ self = DefaultSelf
        /\ data = Frame(<<"SMILES", "Split">>,
                        ("SMILES" :> [r \in Rows(DistanceRows) |-> r])
                            @@ ("Split" :> subsets))
        /\ df = data
        /\ sims = sim
        /\ original_tasks = <<>>
        /\ tasks_for_balancing = <<>>
        /\ clusters = <<>>
        /\ seed = 0
        /\ tasks = NoArg
        /\ ignore_columns = NoArg
        /\ split = 0
        /\ tasks_per_cluster = <<>>
        /\ solution = <<>>
        /\ mapping = <<>>
        /\ error = ""
        /\ result = NoFrame
        /\ log = <<>>

\* lines 422-436: the fingerprints, the loop over the subsets, the column
ComputeDistances ==
    /\ pc = "distances"
    /\ IF DistanceFails(df, "Split")
       THEN /\ error' = "ValueError"
            /\ pc' = "failed"
            /\ df' = df
       ELSE /\ df' = SetCol(df, "minInterSetTd", MinDistances(df, "Split", sims))
            /\ error' = error
            /\ pc' = "measured"
    /\ log' = Append(log, LogEntry("distance"))
    /\ UNCHANGED << ctor, self, seed, data, tasks, ignore_columns, original_tasks,
                    tasks_for_balancing, split, clusters, tasks_per_cluster, solution,
                    mapping, sims, result, caller >>

SpecDistance == DistanceInit /\ [][ComputeDistances]_vars

(***************************************************************************)
(* Properties.                                                             *)
(***************************************************************************)
\* The solver returned a feasible solution: every indicator is 0 or 1 and
\* the indicators of each cluster sum to 1.
HasIncumbent ==
    /\ solution # <<>>
    /\ \A i \in DOMAIN solution : solution[i] \in {0, 1}
    /\ OneSubsetPerCluster(solution, Len(tasks_per_cluster[1]), Len(self.sizes))

MergeReturned == pc \in {"returned", "write"}

\* C1: whatever feasible values the solver returns for the binary indicators
\* (S <= N), the returned list has exactly N entries, each in 1..S, and entry
\* c is the one subset whose indicator for cluster c is 1.
C1_MappingTotal ==
    (MergeReturned /\ HasIncumbent) =>
        LET N == Len(tasks_per_cluster[1])
            S == Len(self.sizes)
        IN /\ S <= N
           /\ Len(mapping) = N
           /\ \A c \in 0..(N - 1) :
                /\ mapping[c + 1] \in 1..S
                /\ \A m \in 0..(S - 1) :
                     (solution[XIndex(c, m, N) + 1] = 1) <=> (mapping[c + 1] = m + 1)

\* C1 witness: three clusters were mapped to two subsets, both of them used.
C1_Witness ==
    /\ pc = "returned"
    /\ HasIncumbent
    /\ Len(tasks_per_cluster[1]) = 3
    /\ Len(self.sizes) = 2
    /\ mapping = <<2, 1, 2>>

\* The objective the documentation states: the weighted sum over all (t, m)
\* of |achieved fraction - target fraction|, on the scale of Objective.
WeightedDeviation(table, sizes, equal_weight, xs) ==
    LET M == Len(table)
        S == Len(sizes)
        term(m, t) == HarmonicNum(sizes, m) * ObjWeight(t, M, equal_weight)
                        * Deviation(table, sizes, xs, t, m)
    IN SumSeq([i \in 1..(S * M) |-> term((i - 1) \div M, (i - 1) % M)])

\* C3: for every (task row t, subset m) the two linearisation constraints are
\* on the slack variable the objective weights for that pair, so that with
\* the slacks at their least values the objective of every assignment is the
\* weighted sum of |achieved fraction - target fraction|.
C3_SlackOfPair ==
    (pc = "solve") =>
        LET M == Len(tasks_per_cluster)
            N == Len(tasks_per_cluster[1])
            S == Len(self.sizes)
            w == self.equal_weight_perc_compounds_as_tasks
        IN /\ \A m \in 0..(S - 1) : \A t \in 0..(M - 1) :
                ConstraintSlack(m, t, M) = ObjectiveSlack(m, t, M)
           /\ \A xs \in Incumbents(N, S) :
                Objective(tasks_per_cluster, self.sizes, w, xs)
                    = WeightedDeviation(tasks_per_cluster, self.sizes, w, xs)

\* C8: when the solver ends without an incumbent the merge does not return:
\* the call has failed with a solver error.
C8_SolverFailureSignalled ==
    (solution # <<>> /\ ~HasIncumbent) => (pc = "failed" /\ error = "SolverError")

\* The values of the split column of the current iteration
SplitValues ==
    LET name == SplitName(self.n_splits, split)
    IN { df.val[name][r] : r \in Rows(NRowsOf(df)) }

\* C2: after the write of an iteration every row holds one value in the
\* split column, an integer in 0..S-1, which is the subset (minus 1) whose
\* indicator the solver set for the row's cluster; the rows per subset add up
\* to the number of rows.
C2_RowsAssigned ==
    (pc = "distance") =>
        LET name == SplitName(self.n_splits, split)
            n == NRowsOf(df)
            N == Len(clusters)
            S == Len(self.sizes)
            count(s) == Cardinality({ r \in Rows(n) : df.val[name][r] = s })
        IN /\ HasCol(df, name)
           /\ \A r \in Rows(n) :
                /\ df.val[name][r] \in 0..(S - 1)
                /\ \E p \in 1..N :
                     /\ r \in clusters[p].idx
                     /\ solution[XIndex(clusters[p].id, df.val[name][r], N) + 1] = 1
           /\ SumSeq([k \in 1..S |-> count(k - 1)]) = n

\* C2 witness: two rows of different clusters were written different subsets.
C2_Witness ==
    /\ pc = "distance"
    /\ Len(clusters) = 3
    /\ \E r1, r2 \in Rows(NRowsOf(df)) :
         df.val[SplitName(self.n_splits, split)][r1] = 0
            /\ df.val[SplitName(self.n_splits, split)][r2] = 1

\* C4 as stated: with at least S clusters every subset receives a cluster, so
\* the split column holds exactly S distinct values.
C4_EverySubsetUsed ==
    (pc = "distance") =>
        /\ \A s \in 1..Len(self.sizes) : \E p \in DOMAIN mapping : mapping[p] = s
        /\ Cardinality(SplitValues) = Len(self.sizes)

\* C4 amended: with at least S clusters every cluster is given one subset in
\* 1..S, so the split column holds at least one and at most S distinct
\* values, all in 0..S-1.
C4_AtMostSSubsets ==
    (pc = "distance") =>
        LET S == Len(self.sizes)
        IN /\ Len(clusters) >= S
           /\ Len(mapping) = Len(clusters)
           /\ \A p \in DOMAIN mapping : mapping[p] \in 1..S
           /\ SplitValues \subseteq 0..(S - 1)
           /\ Cardinality(SplitValues) \in 1..S

\* The assignment the solver returned is optimal for the model as built.
SolutionOptimal ==
    LET w == self.equal_weight_perc_compounds_as_tasks
    IN \A xs \in Incumbents(Len(tasks_per_cluster[1]), Len(self.sizes)) :
          Objective(tasks_per_cluster, self.sizes, w, solution)
              <= Objective(tasks_per_cluster, self.sizes, w, xs)

\* C4 witness: an optimal solution for three clusters and two subsets that
\* leaves subset 2 without a cluster.
C4_Witness ==
    /\ pc = "distance"
    /\ Len(self.sizes) = 2
    /\ Len(clusters) = 3
    /\ SolutionOptimal
    /\ SplitValues = {0}

\* The call failed in the check of S against N.
FailedInMergeCheck ==
    /\ pc = "failed"
    /\ log # <<>>
    /\ log[Len(log)].op = "normalise"

LogOps(i) == { log[k].op : k \in { j \in DOMAIN log : log[j].split = i } }

\* C5 as stated: the error for S > N is raised before any clustering,
\* tabulation, normalisation or solver work.
C5_RaisedEagerly ==
    FailedInMergeCheck =>
        /\ error = "ValueError"
        /\ \A k \in DOMAIN log :
             log[k].op \notin {"cluster", "tabulate", "normalise", "solve"}

\* C5 amended: when the table of an iteration has fewer columns than there
\* are sizes, the call fails with a ValueError raised in the merge, after the
\* tabulation and normalisation of that iteration and before the solver runs
\* or the split column of that iteration is written.
C5_RaisedInMerge ==
    (/\ tasks_per_cluster # <<>>
     /\ Len(self.sizes) > Len(tasks_per_cluster[1])
     /\ pc # "merge") =>
        /\ pc = "failed"
        /\ error = "ValueError"
        /\ FailedInMergeCheck
        /\ {"tabulate", "normalise"} \subseteq LogOps(split)
        /\ LogOps(split) \cap {"solve", "write", "distance"} = {}
        /\ solution = <<>>
        /\ mapping = <<>>
        /\ ~HasCol(df, SplitName(self.n_splits, split))
             \/ HasCol(data, SplitName(self.n_splits, split))

\* C5 witness: three sizes, two clusters from a strategy, failed in the merge.
C5_Witness ==
    /\ FailedInMergeCheck
    /\ error = "ValueError"
    /\ Len(self.sizes) = 3
    /\ Len(tasks_per_cluster[1]) = 2
    /\ "cluster" \in LogOps(0)

\* C6: with n_splits > 1, precomputed clusters or a strategy without a seed
\* make the call fail with a ValueError before the data is copied: nothing is
\* clustered, tabulated, solved or written.
C6_MultiSplitFailsFirst ==
    (/\ self.constructed
     /\ pc # "constructed"
     /\ self.n_splits > 1
     /\ (self.clusters.given \/ ~HasSeed(self.clustering_method))) =>
        /\ pc = "failed"
        /\ error = "ValueError"
        /\ log = <<>>
        /\ df = NoFrame
        /\ result = NoFrame
        /\ clusters = <<>>
        /\ tasks_per_cluster = <<>>
        /\ solution = <<>>

\* C6 witness: precomputed clusters and two splits, failed.
C6_Witness ==
    /\ pc = "failed"
    /\ self.constructed
    /\ self.n_splits = 2
    /\ self.clusters.given
    /\ error = "ValueError"

\* C7 as stated: construction succeeds exactly when the caller supplies one
\* of clusters and clustering strategy, and sets no state otherwise.
C7_ExactlyOneSupplied ==
    (pc # "new") =>
        /\ self.constructed <=>
             (ctor.clusters.given # (ctor.clustering_method \notin {"omitted", "None"}))
        /\ ~self.constructed => (pc = "failed" /\ error = "ValueError" /\ self = NoSelf)

\* C7 amended: construction succeeds exactly when one of the parameters
\* clusters and clustering_method is not None, where a clustering_method the
\* caller omits is the default MaxMinClustering instance; otherwise a
\* ValueError is raised and no state is set.
C7_ExactlyOneNotNone ==
    (pc # "new") =>
        /\ self.constructed <=>
             (ctor.clusters.given # (ctor.clustering_method # "None"))
        /\ ~self.constructed => (pc = "failed" /\ error = "ValueError" /\ self = NoSelf)

\* C7 witness: clusters alone were passed and the constructor raised.
C7_Witness ==
    /\ pc = "failed"
    /\ ~self.constructed
    /\ ctor.clusters.given
    /\ ctor.clustering_method = "omitted"

\* The calls of the clustering strategy so far, in order
ClusterCalls ==
    LET IsCluster(e) == e.op = "cluster"
    IN SelectSeq(log, IsCluster)

\* What C9 says of a state: the strategy was called once per iteration
\* begun, in order, iteration i with seed b + i; the steps of an iteration
\* precede those of the next; the columns Split_0..Split_{i-1} of the
\* finished iterations are there; and a call that returns has run k
\* iterations and holds exactly the k columns Split_0..Split_{k-1} besides
\* the split columns of the input.
SeedsInOrder ==
    (self.constructed /\ self.n_splits > 1) =>
        /\ \A k \in DOMAIN ClusterCalls :
             /\ ClusterCalls[k].split = k - 1
             /\ ClusterCalls[k].seed = ctor.seed + (k - 1)
        /\ \A a, b \in DOMAIN log : a < b => log[a].split <= log[b].split
        /\ \A i \in 0..(self.n_splits - 1) :
             /\ i < split => HasCol(df, "Split_" \o ToString(i))
             /\ (i = split /\ pc = "distance") => HasCol(df, "Split_" \o ToString(i))
             /\ (i > split /\ ~HasCol(data, "Split_" \o ToString(i)))
                    => ~HasCol(df, "Split_" \o ToString(i))
        /\ (pc = "done") =>
             /\ Len(ClusterCalls) = self.n_splits
             /\ seed = ctor.seed + self.n_splits
             /\ { c \in Range(result.cols) : StartsWith(c, "Split") }
                  = { c \in Range(data.cols) : StartsWith(c, "Split") }
                      \cup { "Split_" \o ToString(i) : i \in 0..(self.n_splits - 1) }
             /\ Cardinality({ "Split_" \o ToString(i) : i \in 0..(self.n_splits - 1) })
                  = self.n_splits

\* What C9 says of a step: the column of a finished iteration is its own, no
\* later step writes it.
OwnColumnKept ==
    (self.constructed /\ self.n_splits > 1) =>
        \A i \in 0..(self.n_splits - 1) :
            i < split => df'.val["Split_" \o ToString(i)] = df.val["Split_" \o ToString(i)]

\* C9: with n_splits = k > 1 and a strategy whose seed is b at the start, the
\* iterations run one after another in the order 0..k-1, iteration i clusters
\* with seed b + i and writes its own column Split_i, which no later iteration
\* touches, and the call returns with exactly the k columns Split_0..Split_{k-1}.
C9_SeedsInOrder == []SeedsInOrder /\ [][OwnColumnKept]_vars

\* C9 witness: a call with two splits returned; the second iteration
\* clustered with the seed after the first.
C9_Witness ==
    /\ pc = "done"
    /\ self.n_splits = 2
    /\ Len(ClusterCalls) = 2
    /\ ClusterCalls[2].seed = ctor.seed + 1
    /\ HasCol(result, "Split_0")
    /\ HasCol(result, "Split_1")

SplitCols(me) == { SplitName(me.n_splits, i) : i \in 0..(me.n_splits - 1) }

DistCols(me) ==
    IF me.min_distance
    THEN { DistName(me.n_splits, i) : i \in 0..(me.n_splits - 1) }
    ELSE {}

\* the synthetic balancing columns that are not original task names
Synthetic == Range(tasks_for_balancing) \ Range(original_tasks)

\* C10 as stated: the returned columns are the input columns plus one split
\* column and, with min_distance, one distance column per iteration; no
\* synthetic balancing column is left and every input column is still there.
C10_ColumnCount ==
    (pc = "done") =>
        /\ Len(result.cols) = Len(data.cols)
              + self.n_splits * (1 + (IF self.min_distance THEN 1 ELSE 0))
        /\ Range(data.cols) \subseteq Range(result.cols)
        /\ Synthetic \cap Range(result.cols) = {}

\* C10 amended: the returned columns are the input columns, the split column
\* and (with min_distance) the distance column of every iteration, less the
\* synthetic balancing columns that are not original task names; the count is
\* input + n_splits * (1 + [min_distance]) with every input column present
\* when no input column bears the name of a split, distance or synthetic
\* column.
C10_ColumnsReturned ==
    (pc = "done") =>
        /\ Range(result.cols)
             = (Range(data.cols) \cup SplitCols(self) \cup DistCols(self)) \ Synthetic
        /\ Cardinality(Range(result.cols)) = Len(result.cols)
        /\ Range(original_tasks) \cap Range(data.cols) \subseteq Range(result.cols)
        /\ (Range(data.cols) \cap (SplitCols(self) \cup DistCols(self) \cup Synthetic) = {}) =>
             /\ Len(result.cols) = Len(data.cols)
                   + self.n_splits * (1 + (IF self.min_distance THEN 1 ELSE 0))
             /\ Range(data.cols) \subseteq Range(result.cols)

\* C10 witness: the input had a column named like a class column of a task;
\* it is not among the columns returned.
C10_Witness ==
    /\ pc = "done"
    /\ HasCol(data, "A_1")
    /\ ~HasCol(result, "A_1")
    /\ self.min_distance

\* the non-missing values of a column
Observed(frame, c) == { frame.val[c][r] : r \in Rows(NRowsOf(frame)) } \ {NaN}

\* the names a step appended to tasks_for_balancing
Appended == SubSeq(tasks_for_balancing', Len(tasks_for_balancing) + 1,
                   Len(tasks_for_balancing'))

\* What C11 says of the pass for one task, with the values the task's column
\* holds when the loop reaches it.
TaskExpanded ==
    (pc = "balancing" /\ Len(log') = Len(log) + 1) =>
        LET task == original_tasks[Len(log) + 1]
            parent == df.val[task]
            classes == Observed(df, task)
        IN /\ SubSeq(tasks_for_balancing', 1, Len(tasks_for_balancing)) = tasks_for_balancing
           /\ IF Frac \notin classes
              THEN /\ Len(Appended) = Cardinality(classes)
                   /\ Cardinality(Range(Appended)) = Cardinality(classes)
                   /\ Range(df'.cols) = Range(df.cols) \cup Range(Appended)
                   /\ \A c \in Range(df.cols) \ Range(Appended) : df'.val[c] = df.val[c]
                   /\ \A k \in classes : \E i \in DOMAIN Appended :
                        \A r \in Rows(NRowsOf(df)) :
                            df'.val[Appended[i]][r] = IF parent[r] = k THEN 1 ELSE NaN
                   /\ \A i \in DOMAIN Appended : \A r \in Rows(NRowsOf(df)) :
                        df'.val[Appended[i]][r] \in {1, NaN}
                   /\ (Cardinality(classes) = 1) =>
                        \A r \in Rows(NRowsOf(df)) :
                            (df'.val[Appended[1]][r] # NaN) <=> (parent[r] # NaN)
              ELSE /\ Appended = <<task>>
                   /\ df' = df

\* no original task has a class column named like a column of the input
NoNameClash ==
    \A t \in Range(original_tasks) : \A k \in Observed(data, t) \ {Frac} :
        ~HasCol(data, DerivedName(t, k))

\* What C11 says of the method's result, in terms of the input, when no class
\* column bears the name of an input column.
TasksExpanded ==
    (pc = "balanced" /\ NoNameClash) =>
        /\ \A t \in Range(original_tasks) :
             IF Frac \in Observed(data, t)
             THEN /\ t \in Range(tasks_for_balancing)
                  /\ df.val[t] = data.val[t]
             ELSE /\ t \notin Range(tasks_for_balancing)
                  /\ \A k \in Observed(data, t) :
                       /\ DerivedName(t, k) \in Range(tasks_for_balancing)
                       /\ \A r \in Rows(NRowsOf(data)) :
                            df.val[DerivedName(t, k)][r]
                                = IF data.val[t][r] = k THEN 1 ELSE NaN
        /\ Len(tasks_for_balancing)
             = SumSeq([i \in DOMAIN original_tasks |->
                          IF Frac \in Observed(data, original_tasks[i]) THEN 1
                          ELSE Cardinality(Observed(data, original_tasks[i]))])
        /\ Len(df.cols) = Len(data.cols)
             + Cardinality(Range(tasks_for_balancing) \ Range(original_tasks))

\* C11: a task whose non-missing values are all integral, with C distinct
\* observed values, gets exactly C balancing columns, one per observed class;
\* the column of class k is 1 on the rows of class k and missing on every
\* other row, never 0, so with C = 1 it is non-missing exactly where the
\* parent is; a task with a non-integral value is itself the one balancing
\* task and its column is left as it was.
C11_ClassesExpanded == [][TaskExpanded]_vars /\ []TasksExpanded

\* C11 witness: the method returned for a task with two classes and a task
\* with one class and a missing value, three class columns in all.
C11_Witness ==
    /\ pc = "balanced"
    /\ original_tasks = <<"A", "B">>
    /\ Observed(data, "A") = {0, 1}
    /\ Observed(data, "B") = {1}
    /\ \E r \in Rows(NRowsOf(data)) : data.val["B"][r] = NaN /\ df.val["B_1"][r] = NaN
    /\ tasks_for_balancing = <<"A_0", "A_1", "B_1">>

\* the ways to say which column of the table is which cluster's
ColumnsOf(cl) ==
    { col \in [DOMAIN cl -> DOMAIN cl] : \A p, q \in DOMAIN cl : col[p] = col[q] => p = q }

\* C12: for every list of balancing tasks and every dictionary of clusters,
\* empty clusters included, the call returns a table in which the column of
\* a cluster holds the number of its rows in entry 0 and, in entry t, the
\* number of its rows with a value for task t, so that no entry of a column
\* exceeds its entry 0.
C12_TableCounts ==
    (pc \in {"tabulated", "failed"}) =>
        /\ pc = "tabulated"
        /\ Len(tasks_per_cluster) = Len(tasks_for_balancing) + 1
        /\ \E col \in ColumnsOf(clusters) : \A p \in DOMAIN clusters :
             /\ tasks_per_cluster[1][col[p]] = Cardinality(clusters[p].idx)
             /\ \A t \in DOMAIN tasks_for_balancing :
                  tasks_per_cluster[t + 1][col[p]]
                      = Cardinality({ r \in clusters[p].idx :
                                        df.val[tasks_for_balancing[t]][r] # NaN })
        /\ \A t \in DOMAIN tasks_per_cluster : \A c \in DOMAIN clusters :
             tasks_per_cluster[t][c] <= tasks_per_cluster[1][c]

\* the rows whose subset is not that of row r
PoolOf(frame, r) ==
    { q \in Rows(NRowsOf(frame)) : frame.val["Split"][q] # frame.val["Split"][r] }

\* C13: when the rows of the split column are in two subsets or more, the
\* column of distances holds, at the position of every row r, the scale less
\* the greatest similarity of r to a row of its pool, the pool being every
\* row of another subset and no row of r's own; the other columns are as they
\* were.  When all rows are in one subset there is no distance: the call
\* fails and stores nothing.
C13_DistanceToOtherSubsets ==
    (pc \in {"measured", "failed"}) =>
        IF Cardinality(SubsetsPresent(data, "Split")) >= 2
        THEN /\ pc = "measured"
             /\ df.cols = Append(data.cols, "minInterSetTd")
             /\ \A c \in Range(data.cols) : df.val[c] = data.val[c]
             /\ \A r \in Rows(NRowsOf(data)) :
                  /\ PoolOf(data, r) # {}
                  /\ \E q \in PoolOf(data, r) :
                        df.val["minInterSetTd"][r] = SimScale - sims[r][q]
                  /\ \A q \in PoolOf(data, r) :
                        df.val["minInterSetTd"][r] <= SimScale - sims[r][q]
        ELSE /\ pc = "failed"
             /\ error = "ValueError"
             /\ df = data

\* C13 witness: row 0 is as similar as can be to row 1 of its own subset and
\* not at all to row 2, the only row of another subset; its distance is the
\* whole scale.
C13_Witness ==
    /\ pc = "measured"
    /\ data.val["Split"][0] = data.val["Split"][1]
    /\ data.val["Split"][2] # data.val["Split"][0]
    /\ sims[0][1] = SimScale
    /\ sims[0][2] = 0
    /\ df.val["minInterSetTd"][0] = SimScale
    /\ df.val["minInterSetTd"][2] = SimScale - sims[2][1]

====
